---- MODULE Spec2Model ----
(***************************************************************************)
(* A model of ext/rag_embeddings/embedding.c: the RagEmbeddings::Embedding *)
(* class (from_array, dim, to_a, cosine_similarity, magnitude, normalize!).*)
(*                                                                         *)
(* Floating point.  The C code stores `float` and accumulates in `double`. *)
(* Both are modelled as binary floating-point formats with NaN, signed     *)
(* infinities, signed zeros, subnormals and round-to-nearest-even, with    *)
(* the mantissa width and exponent range scaled down (FltMantBits,         *)
(* FltMaxExp) so that every intermediate integer fits TLC's integers.  The *)
(* double format is derived from the float format with the proportions of  *)
(* IEEE 754 (53 = 2*24+5 mantissa bits, 1023 = 8*127+7 maximum exponent),  *)
(* so a product of two floats is exact in double, as it is in C.           *)
(* A value of either format is a record [k, s, m, e]:                      *)
(*   k = "nan" | "inf" | "fin", s = 0 | 1 the sign, and for k = "fin" the  *)
(*   magnitude m * 2^e with m odd (m = 0, e = 0 for a zero).               *)
(* Widening float -> double is exact, hence the same record.               *)
(***************************************************************************)
EXTENDS Integers, Sequences, FiniteSets

\* Bits of a float's mantissa (FLT_MANT_DIG, 24 in C), scaled down.
FltMantBits == 3
\* Largest exponent of a float (FLT_MAX_EXP - 1, 127 in C), scaled down.
FltMaxExp == 3

FLT == [p |-> FltMantBits, emin |-> 1 - FltMaxExp, emax |-> FltMaxExp]
DBL == [p |-> 2 * FltMantBits + 5, emin |-> 1 - (8 * FltMaxExp + 7),
        emax |-> 8 * FltMaxExp + 7]

\* 2^n for n in 0 .. 30 (1 for n < 0).
Pow2Table == <<2, 4, 8, 16, 32, 64, 128, 256, 512, 1024, 2048, 4096, 8192,
               16384, 32768, 65536, 131072, 262144, 524288, 1048576, 2097152,
               4194304, 8388608, 16777216, 33554432, 67108864, 134217728,
               268435456, 536870912, 1073741824>>
Pow2(n) == IF n <= 0 THEN 1 ELSE Pow2Table[n]

\* The number of bits of m >= 0.
BitLen4(m) == IF m < 4 THEN (IF m < 2 THEN m ELSE 2) ELSE (IF m < 8 THEN 3 ELSE 4)
BitLen8(m) == IF m < 16 THEN BitLen4(m) ELSE 4 + BitLen4(m \div 16)
BitLen16(m) == IF m < 256 THEN BitLen8(m) ELSE 8 + BitLen8(m \div 256)
BitLen(m) == IF m < 65536 THEN BitLen16(m) ELSE 16 + BitLen16(m \div 65536)

Max(a, b) == IF a >= b THEN a ELSE b
Min(a, b) == IF a <= b THEN a ELSE b

NaN == [k |-> "nan", s |-> 0, m |-> 0, e |-> 0]
Inf(s) == [k |-> "inf", s |-> s, m |-> 0, e |-> 0]
Zero(s) == [k |-> "fin", s |-> s, m |-> 0, e |-> 0]

\* The finite value (-1)^s * m * 2^e, m > 0, with m made odd.
RECURSIVE Fin(_, _, _)
Fin(s, m, e) == IF m % 2 = 0 THEN Fin(s, m \div 2, e + 1)
                ELSE [k |-> "fin", s |-> s, m |-> m, e |-> e]

IsNaN(x) == x.k = "nan"
IsInf(x) == x.k = "inf"
IsZero(x) == x.k = "fin" /\ x.m = 0
IsFinite(x) == x.k = "fin"
\* Exponent of the leading bit of a finite nonzero value.
Top(x) == x.e + BitLen(x.m) - 1
Xor(a, b) == IF a = b THEN 0 ELSE 1
Neg(x) == IF IsNaN(x) THEN x ELSE [x EXCEPT !.s = 1 - x.s]

\* (-1)^s * M * 2^E, M > 0, rounded to format f: round to nearest, ties to
\* even; gradual underflow; overflow to infinity.
Round(f, s, M, E) ==
  LET t == E + BitLen(M) - 1
      q == Max(t, f.emin) - (f.p - 1)
      sh == q - E
  IN IF sh <= 0
       THEN IF t > f.emax THEN Inf(s) ELSE Fin(s, M, E)
       ELSE IF sh > BitLen(M) THEN Zero(s)
       ELSE LET d == Pow2(sh)
                Q == M \div d
                R == M % d
                up == 2 * R > d \/ (2 * R = d /\ Q % 2 = 1)
                Q1 == IF up THEN Q + 1 ELSE Q
            IN IF Q1 = 0 THEN Zero(s)
               ELSE IF q + BitLen(Q1) - 1 > f.emax THEN Inf(s)
               ELSE Fin(s, Q1, q)

\* |x| < |y| for finite nonzero x, y.
MagLess(x, y) ==
  IF Top(x) # Top(y) THEN Top(x) < Top(y)
  ELSE LET e == Min(x.e, y.e)
       IN x.m * Pow2(x.e - e) < y.m * Pow2(y.e - e)

\* C's x == y on doubles: false when either is a NaN; +0 == -0.
FEq(x, y) ==
  /\ ~IsNaN(x) /\ ~IsNaN(y)
  /\ \/ IsZero(x) /\ IsZero(y)
     \/ x = y

\* C's x < y on doubles: false when either is a NaN.
FLess(x, y) ==
  /\ ~IsNaN(x) /\ ~IsNaN(y)
  /\ ~FEq(x, y)
  /\ IF x.s # y.s /\ ~(IsZero(x) /\ IsZero(y)) THEN
        IF IsZero(x) THEN y.s = 0
        ELSE IF IsZero(y) THEN x.s = 1
        ELSE x.s = 1
     ELSE IF IsZero(x) THEN ~IsZero(y) /\ y.s = 0
     ELSE IF IsZero(y) THEN x.s = 1
     ELSE IF IsInf(x) THEN x.s = 1
     ELSE IF IsInf(y) THEN y.s = 0
     ELSE IF x.s = 0 THEN MagLess(x, y) ELSE MagLess(y, x)

\* x * y rounded to format f.
FMul(f, x, y) ==
  IF IsNaN(x) \/ IsNaN(y) THEN NaN
  ELSE IF (IsInf(x) /\ IsZero(y)) \/ (IsZero(x) /\ IsInf(y)) THEN NaN
  ELSE IF IsInf(x) \/ IsInf(y) THEN Inf(Xor(x.s, y.s))
  ELSE IF IsZero(x) \/ IsZero(y) THEN Zero(Xor(x.s, y.s))
  ELSE Round(f, Xor(x.s, y.s), x.m * y.m, x.e + y.e)

\* x + y rounded to format f.
FAdd(f, x, y) ==
  IF IsNaN(x) \/ IsNaN(y) THEN NaN
  ELSE IF IsInf(x) /\ IsInf(y) THEN (IF x.s = y.s THEN x ELSE NaN)
  ELSE IF IsInf(x) THEN x
  ELSE IF IsInf(y) THEN y
  ELSE IF IsZero(x) /\ IsZero(y) THEN Zero(IF x.s = 1 /\ y.s = 1 THEN 1 ELSE 0)
  ELSE IF IsZero(x) THEN y
  ELSE IF IsZero(y) THEN x
  ELSE IF Top(x) - Top(y) > f.p + 2 THEN x
  ELSE IF Top(y) - Top(x) > f.p + 2 THEN y
  ELSE LET e == Min(x.e, y.e)
           a == x.m * Pow2(x.e - e) * (IF x.s = 1 THEN -1 ELSE 1)
           b == y.m * Pow2(y.e - e) * (IF y.s = 1 THEN -1 ELSE 1)
           c == a + b
       IN IF c = 0 THEN Zero(0)
          ELSE IF c < 0 THEN Round(f, 1, -c, e)
          ELSE Round(f, 0, c, e)

\* x / y rounded to format f.
FDiv(f, x, y) ==
  IF IsNaN(x) \/ IsNaN(y) THEN NaN
  ELSE IF (IsInf(x) /\ IsInf(y)) \/ (IsZero(x) /\ IsZero(y)) THEN NaN
  ELSE IF IsInf(x) \/ IsZero(y) THEN Inf(Xor(x.s, y.s))
  ELSE IF IsInf(y) \/ IsZero(x) THEN Zero(Xor(x.s, y.s))
  ELSE LET k == Max(0, f.p + 1 + BitLen(y.m) - BitLen(x.m))
           N == x.m * Pow2(k)
           Q == N \div y.m
           sticky == IF N % y.m = 0 THEN 0 ELSE 1
       IN Round(f, Xor(x.s, y.s), 2 * Q + sticky, x.e - y.e - k - 1)

\* The largest r in lo..hi with r * r <= n (lo * lo <= n < (hi + 1)^2).
RECURSIVE ISqrt(_, _, _)
ISqrt(n, lo, hi) ==
  IF lo >= hi THEN lo
  ELSE LET mid == (lo + hi + 1) \div 2
       IN IF mid * mid <= n THEN ISqrt(n, mid, hi) ELSE ISqrt(n, lo, mid - 1)

\* sqrt(x) rounded to format f.
FSqrt(f, x) ==
  IF IsNaN(x) THEN NaN
  ELSE IF IsZero(x) THEN x
  ELSE IF x.s = 1 THEN NaN
  ELSE IF IsInf(x) THEN x
  ELSE LET k0 == Max(0, 2 * f.p + 1 - BitLen(x.m))
           k == IF (x.e - k0) % 2 = 0 THEN k0 ELSE k0 + 1
           S == x.m * Pow2(k)
           r == ISqrt(S, 0, Pow2((BitLen(S) + 1) \div 2))
           sticky == IF r * r = S THEN 0 ELSE 1
       IN Round(f, 0, 2 * r + sticky, ((x.e - k) \div 2) - 1)

One == Fin(0, 1, 0)

(***************************************************************************)
(* Ruby values (VALUE) and arrays.                                         *)
(* A VALUE is [type, d, i]: a Float carries the double d, an Integer the   *)
(* integer i; any other type stands for a non-numeric object.              *)
(* An array is [len, head, rest]: its elements 0 .. Len(head)-1 are head,  *)
(* and every element from Len(head) on, up to len-1, is rest (a run-length *)
(* form of the trailing run, so that an array of 65535 elements is a small *)
(* value).  An embedding_t is [dim, values, pad] in the same form.         *)
(***************************************************************************)
RFloat(d) == [type |-> "T_FLOAT", d |-> d, i |-> 0]
RInteger(n) == [type |-> "T_FIXNUM", d |-> Zero(0), i |-> n]
RString == [type |-> "T_STRING", d |-> Zero(0), i |-> 0]
RNil == [type |-> "T_NIL", d |-> Zero(0), i |-> 0]

RB_FLOAT_TYPE_P(val) == val.type = "T_FLOAT"
RB_INTEGER_TYPE_P(val) == val.type = "T_FIXNUM"

\* An Integer's or a Float's value as a double.
NUM2DBL(val) ==
  IF RB_FLOAT_TYPE_P(val) THEN val.d
  ELSE IF val.i = 0 THEN Zero(0)
  ELSE IF val.i < 0 THEN Round(DBL, 1, -val.i, 0)
  ELSE Round(DBL, 0, val.i, 0)

DBL2NUM(d) == RFloat(d)

\* A conversion that keeps the double as it is.
DoubleToFloat_Kept(d) == d

\* The cast (float)d.  A finite double beyond the float range converts to an
\* infinity (IEC 60559 conversion, what every build of the extension does).
DoubleToFloat(d) ==
  IF IsNaN(d) \/ IsInf(d) \/ IsZero(d) THEN d ELSE Round(FLT, d.s, d.m, d.e)

RArray(head) == [len |-> Len(head), head |-> head, rest |-> RNil]
RARRAY_LEN(rb_array) == rb_array.len
\* array_ptr[i], i counted from 0.
RARRAY_AREF(rb_array, i) ==
  IF i < Len(rb_array.head) THEN rb_array.head[i + 1] ELSE rb_array.rest

\* ptr->values[i], i counted from 0.
ValueAt(ptr, i) == IF i < Len(ptr.values) THEN ptr.values[i + 1] ELSE ptr.pad

UINT16_MAX == 65535
EMBEDDING_DIMENSION == 3072

\* No check of the length against UINT16_MAX.
TooLarge_Unchecked(array_len) == FALSE

\* "if (array_len > UINT16_MAX)"
TooLarge(array_len) == array_len > UINT16_MAX

\* "if (array_len == 0)"
IsEmpty(array_len) == array_len = 0

\* The cast (uint16_t)array_len.
CastDim(array_len) == array_len % (UINT16_MAX + 1)

\* A check that takes every object for a number.
IsNumeric_Any(val) == TRUE

\* "RB_FLOAT_TYPE_P(val) || RB_INTEGER_TYPE_P(val)"
IsNumeric(val) == RB_FLOAT_TYPE_P(val) \/ RB_INTEGER_TYPE_P(val)

\* The indices 0 .. dim-1 the copying loop visits, the trailing run of an
\* array whose explicit part is h long standing for its first index, h.
LoopIndices(dim, h) == (0 .. (Min(dim, h) - 1)) \cup (IF dim > h THEN {h} ELSE {})

\* The indices i < dim at which the loop finds "val" not numeric.
NonNumeric(rb_array, dim) ==
  {i \in LoopIndices(dim, Len(rb_array.head)) : ~IsNumeric(RARRAY_AREF(rb_array, i))}

\* The first of them, where the loop stops.
FirstOf(indices) == CHOOSE i \in indices : \A j \in indices : i <= j

\* The struct once the loop has run to its end:
\* "ptr->dim = dim; ptr->values[i] = (float)NUM2DBL(val);"
CopyValues(rb_array, dim) ==
  [dim |-> dim,
   values |-> [i \in 1 .. Min(dim, Len(rb_array.head)) |->
                  DoubleToFloat(NUM2DBL(rb_array.head[i]))],
   pad |-> IF dim > Len(rb_array.head) THEN DoubleToFloat(NUM2DBL(rb_array.rest))
           ELSE Zero(0)]

\* Embedding.from_array(rb_array) over the objects `objs`: the exception
\* raised ("" for none), what its message carries, and the objects afterwards.
\* The struct is freed before TypeError is raised and wrapped into an object
\* only after the loop.
embedding_from_array(objs, rb_array) ==
  IF TooLarge(RARRAY_LEN(rb_array))
    THEN [raise |-> "ArgumentError", info |-> <<UINT16_MAX>>, objs |-> objs]
  ELSE IF IsEmpty(RARRAY_LEN(rb_array))
    THEN [raise |-> "ArgumentError", info |-> <<>>, objs |-> objs]
  ELSE IF NonNumeric(rb_array, CastDim(RARRAY_LEN(rb_array))) # {}
    THEN [raise |-> "TypeError",
          info |-> <<FirstOf(NonNumeric(rb_array, CastDim(RARRAY_LEN(rb_array))))>>,
          objs |-> objs]
  ELSE [raise |-> "", info |-> <<>>,
        objs |-> Append(objs, CopyValues(rb_array, CastDim(RARRAY_LEN(rb_array))))]

\* embedding.dim
embedding_dim(ptr) == ptr.dim

\* embedding.to_a
embedding_to_a(ptr) ==
  [len |-> ptr.dim,
   head |-> [i \in 1 .. Min(ptr.dim, Len(ptr.values)) |-> DBL2NUM(ptr.values[i])],
   rest |-> IF ptr.dim > Len(ptr.values) THEN DBL2NUM(ptr.pad) ELSE RNil]

\* acc after n rounds of acc += t.  Once a round leaves acc as it was, every
\* later round does too, and the remaining rounds are skipped.
RECURSIVE RepeatAdd(_, _, _)
RECURSIVE RepeatRest(_, _, _)
RepeatAdd(acc, t, n) ==
  IF n <= 0 THEN acc
  ELSE IF n = 1 THEN FAdd(DBL, acc, t)
  ELSE RepeatRest(RepeatAdd(acc, t, n \div 2), t, n - (n \div 2))
RepeatRest(acc, t, n) ==
  IF FAdd(DBL, acc, t) = acc THEN acc ELSE RepeatAdd(acc, t, n)

\* The accumulation loop "for i in from .. to-1: acc += (double)a[i] * b[i]".
RECURSIVE DotLoop(_, _, _, _, _)
DotLoop(a, b, i, to, acc) ==
  IF i >= to THEN acc
  ELSE DotLoop(a, b, i + 1, to,
               FAdd(DBL, acc, FMul(DBL, ValueAt(a, i), ValueAt(b, i))))

\* sum over i < dim of (double)a[i] * b[i], accumulated from 0.0 in index order.
Dot(a, b) ==
  LET h == Min(a.dim, Max(Len(a.values), Len(b.values)))
  IN RepeatAdd(DotLoop(a, b, 0, h, Zero(0)),
               FMul(DBL, a.pad, b.pad), a.dim - h)

\* A check that rejects only a longer receiver.
DimensionMismatch_OneSided(a, b) == a.dim > b.dim

\* "if (a->dim != b->dim)"
DimensionMismatch(a, b) == a.dim # b.dim

\* A check that needs both norms to be zero.
ZeroNorm_Both(norm_a, norm_b) == FEq(norm_a, Zero(0)) /\ FEq(norm_b, Zero(0))

\* A check of the receiver's norm alone.
ZeroNorm_Receiver(norm_a, norm_b) == FEq(norm_a, Zero(0))

\* "if (norm_a == 0.0 || norm_b == 0.0)"
ZeroNorm(norm_a, norm_b) == FEq(norm_a, Zero(0)) \/ FEq(norm_b, Zero(0))

\* "if (similarity > 1.0) similarity = 1.0; if (similarity < -1.0) similarity = -1.0;"
Clamp(similarity) ==
  IF FLess(One, similarity) THEN One
  ELSE IF FLess(similarity, Neg(One)) THEN Neg(One)
  ELSE similarity

\* What follows the loop: the zero check, sqrt(norm_a * norm_b), the division
\* and the clamp.
Similarity(dot, norm_a, norm_b) ==
  IF ZeroNorm(norm_a, norm_b) THEN Zero(0)
  ELSE Clamp(FDiv(DBL, dot, FSqrt(DBL, FMul(DBL, norm_a, norm_b))))

\* embedding.cosine_similarity(other): the exception raised ("" for none),
\* what its message carries, the Float returned and the components read.
embedding_cosine_similarity(a, b) ==
  IF DimensionMismatch(a, b)
    THEN [raise |-> "ArgumentError", info |-> <<a.dim, b.dim>>,
          val |-> RNil, reads |-> 0]
  ELSE [raise |-> "", info |-> <<>>,
        val |-> DBL2NUM(Similarity(Dot(a, b), Dot(a, a), Dot(b, b))),
        reads |-> 2 * a.dim]

\* embedding.magnitude
embedding_magnitude(ptr) == DBL2NUM(FSqrt(DBL, Dot(ptr, ptr)))

\* No check of the magnitude.
ZeroMagnitude_Unchecked(magnitude) == FALSE

\* "if (magnitude == 0.0)"
ZeroMagnitude(magnitude) == FEq(magnitude, Zero(0))

\* "values[i] *= inv_magnitude" for every i < dim.
Scale(ptr, inv_magnitude) ==
  [dim |-> ptr.dim,
   values |-> [i \in 1 .. Len(ptr.values) |->
                  FMul(FLT, ptr.values[i], inv_magnitude)],
   pad |-> IF ptr.dim > Len(ptr.values) THEN FMul(FLT, ptr.pad, inv_magnitude)
           ELSE ptr.pad]

\* What follows "double magnitude = sqrt(sum_squares)": the zero check, then
\* "float inv_magnitude = (float)(1.0 / magnitude)" and the scaling loop.
NormalizeBy(ptr, magnitude) ==
  IF ZeroMagnitude(magnitude)
    THEN [raise |-> "ZeroDivisionError", ptr |-> ptr]
  ELSE [raise |-> "",
        ptr |-> Scale(ptr, DoubleToFloat(FDiv(DBL, One, magnitude)))]

\* embedding.normalize!: the exception raised ("" for none) and the struct
\* afterwards.
embedding_normalize_bang(ptr) == NormalizeBy(ptr, FSqrt(DBL, Dot(ptr, ptr)))

(***************************************************************************)
(* The state: the Embedding objects created so far (object i is            *)
(* embeddings[i]), the outcome of the call that has just returned or       *)
(* raised (op = "idle" once the caller has taken it), and the arrays the   *)
(* caller holds, fixed from the start.  Calls are made one at a time, as   *)
(* under the interpreter's lock.                                           *)
(***************************************************************************)
VARIABLES embeddings, ret, arrays
vars == <<embeddings, ret, arrays>>

\* Longest array of the callers' short arrays.
MaxLen == 3
\* Most Embedding objects alive.
MaxObjs == 2
\* Most explicitly stored components over all objects.
MaxCells == 3

\* The smallest positive float, 2^(emin - (p - 1)).
FltTrueMin == Fin(0, 1, FLT.emin - (FLT.p - 1))
\* A double above every finite float.
DblHuge == Fin(0, 1, FLT.emax + 2)
\* A double between two floats, 1 + 2^-(p+1).
DblInexact == Fin(0, Pow2(FLT.p + 1) + 1, -(FLT.p + 1))

\* The values the elements of a run's short arrays are drawn from.
Universes ==
  { {RFloat(Zero(0)), RFloat(Fin(0, 3, 0))},
    {RFloat(Fin(0, 3, 0)), RFloat(Fin(0, 4, 0))},
    {RFloat(Zero(0)), RFloat(NaN)},
    {RFloat(Zero(1)), RFloat(Inf(0))},
    {RFloat(Fin(0, 3, 0)), RFloat(Inf(1))},
    {RFloat(FltTrueMin), RFloat(Fin(1, 3, 0))},
    {RFloat(DblInexact), RFloat(DblHuge)},
    {RInteger(2), RString} }

ShortArrays(U) == {RArray(h) : h \in UNION {[1 .. n -> U] : n \in 0 .. MaxLen}}

LongLens == {EMBEDDING_DIMENSION, EMBEDDING_DIMENSION + 1, UINT16_MAX, UINT16_MAX + 1}

LongArrays ==
  {[len |-> n, head |-> <<RFloat(Fin(0, 3, 0))>>, rest |-> RFloat(Zero(0))]
     : n \in LongLens}
  \cup {[len |-> n, head |-> <<RString>>, rest |-> RFloat(Zero(0))]
          : n \in {UINT16_MAX, UINT16_MAX + 1}}
  \cup {[len |-> EMBEDDING_DIMENSION + 1, head |-> <<RInteger(1)>>, rest |-> RString],
        RArray(<<RFloat(Fin(0, 3, 0))>>)}

Pools == {ShortArrays(U) : U \in Universes} \cup {LongArrays}

NoArray == RArray(<<>>)
Call(op, self, other, arg, raise, info, val, reads) ==
  [op |-> op, self |-> self, other |-> other, arg |-> arg, raise |-> raise,
   info |-> info, val |-> val, reads |-> reads]

Idle == Call("idle", 0, 0, NoArray, "", <<>>, RNil, 0)

RECURSIVE Cells(_)
Cells(objs) == IF objs = <<>> THEN 0
               ELSE Len(Head(objs).values) + Cells(Tail(objs))

Init ==
  /\ embeddings = <<>>
  /\ ret = Idle
  /\ arrays \in Pools

\* from_array(rb_array) ends with the outcome r.
FromArrayDone(rb_array, r) ==
  /\ ret.op = "idle"
  /\ \/ r.raise # ""
     \/ /\ Len(embeddings) < MaxObjs
        /\ Cells(embeddings) + Len(rb_array.head) <= MaxCells
  /\ embeddings' = r.objs
  /\ ret' = Call("from_array", 0, 0, rb_array, r.raise, r.info,
                 IF r.raise = "" THEN Len(r.objs) ELSE 0, 0)
  /\ UNCHANGED arrays

\* RagEmbeddings::Embedding.from_array(rb_array)
FromArray(rb_array) ==
  FromArrayDone(rb_array, embedding_from_array(embeddings, rb_array))

\* embeddings[self].dim
Dim(self) ==
  /\ ret.op = "idle"
  /\ ret' = Call("dim", self, 0, NoArray, "", <<>>,
                 embedding_dim(embeddings[self]), 0)
  /\ UNCHANGED <<embeddings, arrays>>

\* embeddings[self].to_a
ToA(self) ==
  /\ ret.op = "idle"
  /\ ret' = Call("to_a", self, 0, NoArray, "", <<>>,
                 embedding_to_a(embeddings[self]), embeddings[self].dim)
  /\ UNCHANGED <<embeddings, arrays>>

\* cosine_similarity ends with the outcome r.
CosineSimilarityDone(self, other, r) ==
  /\ ret.op = "idle"
  /\ ret' = Call("cosine_similarity", self, other, NoArray, r.raise, r.info,
                 r.val, r.reads)
  /\ UNCHANGED <<embeddings, arrays>>

\* embeddings[self].cosine_similarity(embeddings[other])
CosineSimilarity(self, other) ==
  CosineSimilarityDone(self, other,
     embedding_cosine_similarity(embeddings[self], embeddings[other]))

\* embeddings[self].magnitude
Magnitude(self) ==
  /\ ret.op = "idle"
  /\ ret' = Call("magnitude", self, 0, NoArray, "", <<>>,
                 embedding_magnitude(embeddings[self]), embeddings[self].dim)
  /\ UNCHANGED <<embeddings, arrays>>

\* normalize! ends with the outcome r, the struct written to the objects
\* `written`.
NormalizeBangDone(self, r, written) ==
  /\ ret.op = "idle"
  /\ embeddings' = [i \in DOMAIN embeddings |->
                       IF i \in written THEN r.ptr ELSE embeddings[i]]
  /\ ret' = Call("normalize!", self, 0, NoArray, r.raise, <<>>, self,
                 embeddings[self].dim)
  /\ UNCHANGED arrays

\* A normalize! over a buffer shared by the objects of the same dimension.
NormalizeBang_Shared(self) ==
  NormalizeBangDone(self, embedding_normalize_bang(embeddings[self]),
     {i \in DOMAIN embeddings : embeddings[i].dim = embeddings[self].dim})

\* embeddings[self].normalize!
NormalizeBang(self) ==
  NormalizeBangDone(self, embedding_normalize_bang(embeddings[self]), {self})

\* The caller takes the call's outcome and goes on.
Return ==
  /\ ret.op # "idle"
  /\ ret' = Idle
  /\ UNCHANGED <<embeddings, arrays>>

Next ==
  \/ \E rb_array \in arrays : FromArray(rb_array)
  \/ \E self \in DOMAIN embeddings : Dim(self)
  \/ \E self \in DOMAIN embeddings : ToA(self)
  \/ \E self \in DOMAIN embeddings, other \in DOMAIN embeddings :
        CosineSimilarity(self, other)
  \/ \E self \in DOMAIN embeddings : Magnitude(self)
  \/ \E self \in DOMAIN embeddings : NormalizeBang(self)
  \/ Return

Spec == Init /\ [][Next]_vars

(***************************************************************************)
(* The claims.                                                             *)
(***************************************************************************)
\* The indices that stand for all of an array's, or an embedding's.
ArrayIndices(rb_array) == LoopIndices(rb_array.len, Len(rb_array.head))
ValueIndices(ptr) == LoopIndices(ptr.dim, Len(ptr.values))

AllNumeric(rb_array) ==
  \A i \in ArrayIndices(rb_array) :
     RARRAY_AREF(rb_array, i).type \in {"T_FLOAT", "T_FIXNUM"}
AllZero(ptr) == \A i \in ValueIndices(ptr) : IsZero(ValueAt(ptr, i))
AllFinite(ptr) == \A i \in ValueIndices(ptr) : IsFinite(ValueAt(ptr, i))

\* d is a value of the float format.
IsFloatValue(d) ==
  \/ IsNaN(d) \/ IsInf(d) \/ IsZero(d)
  \/ /\ BitLen(d.m) <= FLT.p
     /\ Top(d) <= FLT.emax
     /\ d.e >= FLT.emin - (FLT.p - 1)

\* The dimension contract with `max` as the largest dimension: every
\* Embedding has 1 <= dim <= max; from_array raises ArgumentError on an array
\* of length 0 or above max, and on an array of numbers of a length in
\* 1 .. max it returns a new Embedding of that dimension.
DimensionContract(max) ==
  /\ \A i \in DOMAIN embeddings :
        1 <= embeddings[i].dim /\ embeddings[i].dim <= max
  /\ ret.op = "from_array" =>
        /\ (ret.arg.len = 0 \/ ret.arg.len > max) => ret.raise = "ArgumentError"
        /\ (ret.arg.len \in 1 .. max /\ AllNumeric(ret.arg)) =>
              /\ ret.raise = ""
              /\ ret.val = Len(embeddings)
              /\ embedding_dim(embeddings[ret.val]) = ret.arg.len

\* A from_array that raises leaves the objects as they were.
FailedConstructKeepsObjects ==
  (ret'.op = "from_array" /\ ret'.raise # "") => embeddings' = embeddings

\* C1 as stated, for arrays of numbers: the dimension contract holds with the
\* configured EMBEDDING_DIMENSION (3072) as the largest dimension.
C1_Original ==
  (ret.op = "from_array" => AllNumeric(ret.arg)) =>
     DimensionContract(EMBEDDING_DIMENSION)

\* C1, amended: the dimension contract holds with UINT16_MAX (65535) as the
\* largest dimension, and a from_array that raises creates no Embedding.
C1_DimensionContract ==
  /\ []DimensionContract(UINT16_MAX)
  /\ [][FailedConstructKeepsObjects]_vars

C1_Witness ==
  /\ ret.op = "from_array" /\ ret.raise = ""
  /\ ret.arg.len = UINT16_MAX
  /\ embeddings[ret.val].dim = UINT16_MAX

\* C2 as stated: from_array on any array with a non-numeric element raises
\* TypeError.
C2_Original ==
  (ret.op = "from_array" /\ ~AllNumeric(ret.arg)) => ret.raise = "TypeError"

\* C2, amended: from_array on an array of 1 .. 65535 elements with a
\* non-numeric element, at any index, raises TypeError; and after any
\* from_array that raises, the objects are exactly those from before the
\* call, each unchanged.
C2_FailedConstruct ==
  /\ []((ret.op = "from_array" /\ ret.arg.len \in 1 .. UINT16_MAX
           /\ ~AllNumeric(ret.arg)) => ret.raise = "TypeError")
  /\ [][FailedConstructKeepsObjects]_vars

C2_Witness ==
  /\ ret.op = "from_array" /\ ret.raise = "TypeError"
  /\ ret.arg.len = 3 /\ Len(ret.arg.head) = 3
  /\ IsNumeric(ret.arg.head[1]) /\ ~IsNumeric(ret.arg.head[2])
  /\ IsNumeric(ret.arg.head[3])
  /\ Len(embeddings) >= 1

\* C3: after from_array(S) has returned an Embedding e, e.dim is |S| and
\* e.to_a has |S| elements, the i-th being S[i] converted to single
\* precision: a Float whose value is a float, equal to S[i] when S[i] is one.
C3_RoundTrip ==
  (ret.op = "from_array" /\ ret.raise = "") =>
     LET S == ret.arg
         e == embeddings[ret.val]
         out == embedding_to_a(e)
     IN /\ embedding_dim(e) = S.len
        /\ out.len = S.len
        /\ ArrayIndices(out) = ArrayIndices(S)
        /\ \A i \in ArrayIndices(S) :
              LET x == NUM2DBL(RARRAY_AREF(S, i))
                  y == RARRAY_AREF(out, i)
              IN /\ y.type = "T_FLOAT"
                 /\ IsFloatValue(y.d)
                 /\ IsFloatValue(x) => y.d = x
                 /\ y.d = DoubleToFloat(x)

C3_Witness ==
  /\ ret.op = "from_array" /\ ret.raise = "" /\ ret.arg.len = 3
  /\ \E i \in ArrayIndices(ret.arg) :
        /\ ~IsFloatValue(NUM2DBL(RARRAY_AREF(ret.arg, i)))
        /\ IsFinite(RARRAY_AREF(embedding_to_a(embeddings[ret.val]), i).d)

\* C4: normalize! on an Embedding whose components are all zero raises
\* ZeroDivisionError and changes nothing: every component is still zero and
\* the dimension is the same.
C4_NormalizeZeroVector ==
  [][\A self \in DOMAIN embeddings :
        (ret'.op = "normalize!" /\ ret'.self = self /\ AllZero(embeddings[self])) =>
           /\ ret'.raise = "ZeroDivisionError"
           /\ embeddings' = embeddings
           /\ AllZero(embeddings'[self])]_vars

C4_Witness ==
  /\ ret.op = "normalize!" /\ ret.raise = "ZeroDivisionError"
  /\ AllZero(embeddings[ret.self]) /\ embeddings[ret.self].dim >= 2

\* C5: cosine_similarity on Embeddings of different dimensions raises the
\* dimension-mismatch error carrying both dimensions, returns no number,
\* reads no component, and changes neither operand.
C5_MismatchRejected ==
  /\ []((ret.op = "cosine_similarity"
          /\ embeddings[ret.self].dim # embeddings[ret.other].dim) =>
            /\ ret.raise = "ArgumentError"
            /\ ret.info = <<embeddings[ret.self].dim, embeddings[ret.other].dim>>
            /\ ret.val = RNil
            /\ ret.reads = 0)
  /\ [][ret'.op = "cosine_similarity" => embeddings' = embeddings]_vars

C5_Witness ==
  /\ ret.op = "cosine_similarity" /\ ret.raise = "ArgumentError"
  /\ embeddings[ret.self].dim = 2 /\ embeddings[ret.other].dim = 1

\* C6: cosine_similarity of an all-zero Embedding with any Embedding of the
\* same dimension, in either order, returns exactly 0.0 and raises nothing.
C6_ZeroVectorPolicy ==
  (/\ ret.op = "cosine_similarity"
   /\ embeddings[ret.self].dim = embeddings[ret.other].dim
   /\ AllZero(embeddings[ret.self]) \/ AllZero(embeddings[ret.other])) =>
     /\ ret.raise = ""
     /\ ret.val = DBL2NUM(Zero(0))

C6_Witness ==
  /\ ret.op = "cosine_similarity" /\ ret.raise = ""
  /\ AllZero(embeddings[ret.other])
  /\ \E i \in ValueIndices(embeddings[ret.self]) :
        ~IsFinite(ValueAt(embeddings[ret.self], i))

\* C7 as stated: cosine_similarity of Embeddings of equal dimension returns
\* a value v with -1 <= v <= 1.
C7_Original ==
  (ret.op = "cosine_similarity" /\ ret.raise = "") =>
     /\ ~IsNaN(ret.val.d)
     /\ ~FLess(One, ret.val.d)
     /\ ~FLess(ret.val.d, Neg(One))

\* C8: a.cosine_similarity(b) and b.cosine_similarity(a) either both raise
\* the dimension-mismatch error or both return the same value.
C8_Symmetry ==
  ret.op = "cosine_similarity" =>
     LET swapped == embedding_cosine_similarity(embeddings[ret.other],
                                                 embeddings[ret.self])
     IN /\ swapped.raise = ret.raise
        /\ swapped.val = ret.val

C8_Witness ==
  /\ ret.op = "cosine_similarity" /\ ret.raise = ""
  /\ ret.self # ret.other
  /\ embeddings[ret.self] # embeddings[ret.other]
  /\ ~IsZero(ret.val.d)

\* C9: no step removes an Embedding or changes a dimension; an Embedding
\* changes only by a normalize! on that very Embedding that raised nothing;
\* a new Embedding comes only from a from_array that raised nothing and has
\* the array's length as its dimension; dim, to_a, cosine_similarity and
\* magnitude change no Embedding.
C9_Frame ==
  [][/\ Len(embeddings') >= Len(embeddings)
     /\ \A i \in DOMAIN embeddings :
           /\ embeddings'[i].dim = embeddings[i].dim
           /\ embeddings'[i] # embeddings[i] =>
                 ret'.op = "normalize!" /\ ret'.raise = "" /\ ret'.self = i
     /\ Len(embeddings') > Len(embeddings) =>
           /\ ret'.op = "from_array" /\ ret'.raise = ""
           /\ Len(embeddings') = Len(embeddings) + 1
           /\ embeddings'[Len(embeddings')].dim = ret'.arg.len
     /\ ret'.op \in {"dim", "to_a", "cosine_similarity", "magnitude"} =>
           embeddings' = embeddings]_vars

C9_Witness ==
  /\ ret.op = "normalize!" /\ ret.raise = "" /\ ret.self = 1
  /\ Len(embeddings) = 2
  /\ embeddings[1].dim = embeddings[2].dim
  /\ ~AllZero(embeddings[2])

\* C10 as stated, for Embeddings of finite components: a normalize! that
\* raises nothing (the magnitude was not zero) leaves the dimension as it was
\* and the magnitude at about 1.0 (here: between 1/2 and 2).
C10_Original ==
  [][\A self \in DOMAIN embeddings :
        (ret'.op = "normalize!" /\ ret'.self = self /\ ret'.raise = ""
           /\ AllFinite(embeddings[self])) =>
           LET mag == embedding_magnitude(embeddings'[self]).d
           IN /\ embeddings'[self].dim = embeddings[self].dim
              /\ ~IsNaN(mag)
              /\ ~FLess(mag, Fin(0, 1, -1))
              /\ ~FLess(Fin(0, 2, 0), mag)]_vars
====
